---- MODULE Spec2Model ----
(***************************************************************************)
(* Model of ETL-Pipeline-Demo/etl_pipeline.py: extract_data, validate_data, *)
(* transform_data, load_data and their orchestration by run_pipeline.       *)
(*                                                                          *)
(* Representation.                                                          *)
(*  - A nullable cell (NaN / NaT / None) is a sequence of length 0 or 1:    *)
(*    <<>> is the missing value, <<v>> a present one.                       *)
(*  - An amount is an integer number of thousandths (12344 is 12.344); a    *)
(*    value rounded by .round(2) is an integer number of hundredths.        *)
(*  - A raw transaction_date is the text "YYYY-MM-DD", held as its three    *)
(*    numeric fields <<y, m, d>>; a parsed date is its proleptic Gregorian  *)
(*    day ordinal.                                                          *)
(*  - A DataFrame is a sequence of rows; every row carries its index label. *)
(*  - Python objects live in heap (a sequence); a Python variable holds a   *)
(*    reference, the object's position in heap, or None.                    *)
(***************************************************************************)
EXTENDS Integers, Sequences, FiniteSets, TLC

VARIABLES
    source,            \* sample_data.csv: [kind, rows]
    stage,             \* position of run_pipeline
    heap,              \* the objects allocated so far
    raw_data,          \* run_pipeline's raw_data (reference or None)
    clean_data,        \* run_pipeline's clean_data
    daily_summary,     \* run_pipeline's daily_summary
    category_summary,  \* run_pipeline's category_summary
    null_counts,       \* validate_data's null_counts, once computed
    removed,           \* validate_data's removed, once computed
    files,             \* the three output files
    console,           \* the messages printed so far
    calls              \* how many times each stage function was entered

vars == <<source, stage, heap, raw_data, clean_data, daily_summary,
          category_summary, null_counts, removed, files, console, calls>>

(***************************************************************************)
(* Bounds of the model.                                                     *)
(***************************************************************************)
MaxLen == 3
MaxLiveLen == 2

(***************************************************************************)
(* Values.                                                                  *)
(***************************************************************************)
None == 0
NULL == <<>>
Some(v) == <<v>>
IsNull(c) == c = <<>>
Val(c) == c[1]

Columns == {"transaction_id", "transaction_date", "amount",
            "merchant_category", "status"}

FileNames == <<"transactions_clean.csv", "daily_summary.csv", "category_summary.csv">>

(***************************************************************************)
(* The rows a source file may hold.  BaseRow is a well-formed completed     *)
(* transaction; the other rows differ from it in one column (a missing      *)
(* value, another status, date, amount or category), and two more rows      *)
(* carry a bad date under a status that is filtered out, and a second       *)
(* date under a second category.                                            *)
(***************************************************************************)
BaseRow == [transaction_id |-> Some(1), transaction_date |-> Some(<<2026, 1, 1>>),
            amount |-> Some(100000), merchant_category |-> Some("A"),
            status |-> Some("completed")]

StatusCells == {Some("completed"), Some("pending"), Some("Completed"), NULL}
DateCells == {Some(<<2026, 1, 1>>), Some(<<2026, 1, 2>>), Some(<<2026, 2, 30>>),
              Some(<<2026, 13, 1>>), NULL}
AmountCells == {Some(100000), Some(50000), Some(12344), Some(-20000), NULL}
CategoryCells == {Some("A"), Some("B"), Some("C"), NULL}
IdCells == {Some(1), NULL}

CsvRows ==
    {[BaseRow EXCEPT !.status = s] : s \in StatusCells}
    \cup {[BaseRow EXCEPT !.transaction_date = d] : d \in DateCells}
    \cup {[BaseRow EXCEPT !.amount = a] : a \in AmountCells}
    \cup {[BaseRow EXCEPT !.merchant_category = c] : c \in CategoryCells}
    \cup {[BaseRow EXCEPT !.transaction_id = i] : i \in IdCells}
    \cup {[BaseRow EXCEPT !.status = Some("pending"),
                          !.transaction_date = Some(<<2026, 13, 1>>)],
          [BaseRow EXCEPT !.transaction_date = Some(<<2026, 1, 2>>),
                          !.merchant_category = Some("B"),
                          !.amount = Some(50000)]}

SeqsUpTo(S, n) == UNION {[1..k -> S] : k \in 0..n}

SourceFiles(n) ==
    {[kind |-> "ok", rows |-> r] : r \in SeqsUpTo(CsvRows, n)}
    \cup {[kind |-> k, rows |-> <<>>] : k \in {"missing", "unreadable"}}

(***************************************************************************)
(* Sequence helpers.                                                        *)
(***************************************************************************)
Range(s) == {s[i] : i \in DOMAIN s}

RECURSIVE SumSeq(_)
SumSeq(s) == IF s = <<>> THEN 0 ELSE Head(s) + SumSeq(Tail(s))

RECURSIVE MaxSeq(_)
MaxSeq(s) ==
    IF Len(s) = 1 THEN Head(s)
    ELSE LET m == MaxSeq(Tail(s)) IN IF Head(s) >= m THEN Head(s) ELSE m

\* The integers of the finite set S in ascending order.
RECURSIVE SortedInts(_)
SortedInts(S) ==
    IF S = {} THEN <<>>
    ELSE LET m == CHOOSE x \in S : \A y \in S : x <= y
         IN <<m>> \o SortedInts(S \ {m})

\* Python's order on the category labels in use (code point order).
StrRank(s) == CASE s = "A" -> 1 [] s = "B" -> 2 [] s = "C" -> 3
StrOfRank(n) == CHOOSE s \in {"A", "B", "C"} : StrRank(s) = n
SortedStrs(S) ==
    LET ranks == SortedInts({StrRank(s) : s \in S})
    IN [i \in DOMAIN ranks |-> StrOfRank(ranks[i])]

(***************************************************************************)
(* pd.to_datetime on "YYYY-MM-DD" text: the calendar check and the value.   *)
(***************************************************************************)
IsLeap(y) == (y % 4 = 0 /\ y % 100 # 0) \/ y % 400 = 0

DaysInMonth(y, m) ==
    CASE m \in {1, 3, 5, 7, 8, 10, 12} -> 31
      [] m \in {4, 6, 9, 11} -> 30
      [] m = 2 -> IF IsLeap(y) THEN 29 ELSE 28

ValidDate(t) == t[2] \in 1..12 /\ t[3] \in 1..DaysInMonth(t[1], t[2])

RECURSIVE DaysBeforeMonth(_, _)
DaysBeforeMonth(y, m) ==
    IF m = 1 THEN 0 ELSE DaysBeforeMonth(y, m - 1) + DaysInMonth(y, m - 1)

ToOrdinal(t) ==
    LET y == t[1] - 1
    IN y * 365 + (y \div 4) - (y \div 100) + (y \div 400)
       + DaysBeforeMonth(t[1], t[2]) + t[3]

\* errors='raise' (the default): one unparseable present cell fails the call.
to_datetime_raises_coerce(cells) == FALSE
to_datetime_raises(cells) ==
    \E i \in DOMAIN cells : ~IsNull(cells[i]) /\ ~ValidDate(Val(cells[i]))

\* A missing cell becomes NaT; a present one the date it denotes.
to_datetime_cell(c) == IF IsNull(c) THEN NULL ELSE Some(ToOrdinal(Val(c)))

(***************************************************************************)
(* extract_data: pd.read_csv gives the rows a RangeIndex 0..n-1.            *)
(***************************************************************************)
read_csv(rows) ==
    [i \in DOMAIN rows |->
        [index |-> i - 1,
         transaction_id |-> rows[i].transaction_id,
         transaction_date |-> rows[i].transaction_date,
         amount |-> rows[i].amount,
         merchant_category |-> rows[i].merchant_category,
         status |-> rows[i].status]]

extract_data(h, src) ==
    CASE src.kind = "ok" ->
           [heap |-> Append(h, read_csv(src.rows)), ret |-> Len(h) + 1,
            console |-> <<"loaded", "columns", "sample">>]
      [] src.kind = "missing" ->
           [heap |-> h, ret |-> None, console |-> <<"error_not_found">>]
      [] src.kind = "unreadable" ->
           [heap |-> h, ret |-> None, console |-> <<"error_loading">>]

(***************************************************************************)
(* validate_data.                                                           *)
(***************************************************************************)
Column(rows, col) == [i \in DOMAIN rows |-> rows[i][col]]

NonNull(cells) == SelectSeq(cells, LAMBDA c : ~IsNull(c))

\* df.isnull().sum(): per column, the number of missing cells.
isnull_sum(rows) ==
    [col \in Columns |-> Len(rows) - Len(NonNull(Column(rows, col)))]

\* df[df['status'] == 'completed']: a boolean mask keeps the rows in order.
StatusFilter_caseless(rows) ==
    SelectSeq(rows, LAMBDA r : r.status \in {Some("completed"), Some("Completed")})
StatusFilter_reversed(rows) ==
    LET kept == SelectSeq(rows, LAMBDA r : r.status = Some("completed"))
    IN [i \in DOMAIN kept |-> kept[Len(kept) + 1 - i]]
StatusFilter(rows) == SelectSeq(rows, LAMBDA r : r.status = Some("completed"))

\* df_clean['transaction_date'] = pd.to_datetime(df_clean['transaction_date'])
ConvertDates(rows) ==
    [i \in DOMAIN rows |->
        [rows[i] EXCEPT !.transaction_date = to_datetime_cell(@)]]

NullMessage(nc) ==
    IF SumSeq([i \in 1..5 |-> nc[<<"transaction_id", "transaction_date", "amount",
                                  "merchant_category", "status">>[i]]]) > 0
    THEN "warning_nulls" ELSE "no_nulls"

\* The result of a call: raised, the heap after it, the reference returned,
\* the locals null_counts and removed, and what was printed.
validate_data_inplace(h, df) ==
    IF df = None
    THEN [raised |-> TRUE, heap |-> h, ret |-> None, null_counts |-> NULL,
          removed |-> NULL, console |-> <<"Traceback">>]
    ELSE LET rows == h[df]
             clean == StatusFilter(rows)
             said == <<NullMessage(isnull_sum(rows)), "filtered", "removed">>
         IN IF to_datetime_raises(Column(clean, "transaction_date"))
            THEN [raised |-> TRUE, heap |-> h, ret |-> None,
                  null_counts |-> Some(isnull_sum(rows)),
                  removed |-> Some(Len(rows) - Len(clean)),
                  console |-> said \o <<"Traceback">>]
            ELSE [raised |-> FALSE,
                  heap |-> [h EXCEPT ![df] = ConvertDates(clean)],
                  ret |-> df,
                  null_counts |-> Some(isnull_sum(rows)),
                  removed |-> Some(Len(rows) - Len(clean)),
                  console |-> said \o <<"converted">>]

validate_data(h, df) ==
    IF df = None
    THEN \* len(None) at line 74 raises TypeError
         [raised |-> TRUE, heap |-> h, ret |-> None, null_counts |-> NULL,
          removed |-> NULL, console |-> <<"Traceback">>]
    ELSE LET rows == h[df]
             initial_count == Len(rows)
             clean == StatusFilter(rows)
             said == <<NullMessage(isnull_sum(rows)), "filtered", "removed">>
         IN IF to_datetime_raises(Column(clean, "transaction_date"))
            THEN [raised |-> TRUE, heap |-> h, ret |-> None,
                  null_counts |-> Some(isnull_sum(rows)),
                  removed |-> Some(initial_count - Len(clean)),
                  console |-> said \o <<"Traceback">>]
            ELSE \* .copy(): df_clean is a new object
                 [raised |-> FALSE,
                  heap |-> Append(h, ConvertDates(clean)),
                  ret |-> Len(h) + 1,
                  null_counts |-> Some(isnull_sum(rows)),
                  removed |-> Some(initial_count - Len(clean)),
                  console |-> said \o <<"converted">>]

(***************************************************************************)
(* transform_data.  An aggregate is an exact rational <<num, den>> of       *)
(* thousandths until .round(2) turns it into hundredths.                    *)
(***************************************************************************)
\* The integer nearest n/d (d > 0), a tie going to the even one.
RoundHalfEven(n, d) ==
    LET q == n \div d
        r == n % d
    IN IF 2 * r < d THEN q
       ELSE IF 2 * r > d THEN q + 1
       ELSE IF q % 2 = 0 THEN q ELSE q + 1

round2(cell) ==
    IF IsNull(cell) THEN NULL
    ELSE Some(RoundHalfEven(Val(cell)[1], 10 * Val(cell)[2]))

Values(cells) == [i \in DOMAIN NonNull(cells) |-> Val(NonNull(cells)[i])]

\* 'count', 'sum', 'mean', 'max' of a group's column: missing cells are skipped.
agg_count(cells) == Len(NonNull(cells))
agg_sum(cells) == Some(<<SumSeq(Values(cells)), 1>>)
agg_mean(cells) ==
    IF NonNull(cells) = <<>> THEN NULL
    ELSE Some(<<SumSeq(Values(cells)), Len(NonNull(cells))>>)
agg_max(cells) ==
    IF NonNull(cells) = <<>> THEN NULL
    ELSE Some(<<MaxSeq(Values(cells)), 1>>)

\* groupby(col): the rows of one key, in their order.
Group(rows, col, k) == SelectSeq(rows, LAMBDA r : r[col] = Some(k))

\* groupby keys: the distinct present values, ascending (sort=True, dropna=True).
GroupKeys(rows, col) == {Val(c) : c \in Range(NonNull(Column(rows, col)))}

DailyRow(rows, k) ==
    LET g == Group(rows, "transaction_date", k)
    IN [transaction_date |-> k,
        transaction_count |-> agg_count(Column(g, "transaction_id")),
        total_amount |-> round2(agg_sum(Column(g, "amount"))),
        avg_amount |-> round2(agg_mean(Column(g, "amount"))),
        max_amount |-> round2(agg_max(Column(g, "amount")))]

DailySummary(rows) ==
    LET keys == SortedInts(GroupKeys(rows, "transaction_date"))
    IN [i \in DOMAIN keys |-> DailyRow(rows, keys[i])]

CategoryRow(rows, k) ==
    LET g == Group(rows, "merchant_category", k)
    IN [merchant_category |-> k,
        total_spent |-> round2(agg_sum(Column(g, "amount"))),
        transaction_count |-> agg_count(Column(g, "amount"))]

CategoryGroups(rows) ==
    LET keys == SortedStrs(GroupKeys(rows, "merchant_category"))
    IN [i \in DOMAIN keys |-> CategoryRow(rows, keys[i])]

Rearrangements(s) ==
    {[i \in DOMAIN s |-> s[f[i]]] : f \in Permutations(DOMAIN s)}

\* sort_values('total_spent', ascending=False) with the default kind
\* 'quicksort', which is not stable: every descending arrangement of the
\* rows is a possible result.
sort_values_ascending(s) ==
    {p \in Rearrangements(s) :
        \A i, j \in DOMAIN p :
            i < j => Val(p[i].total_spent) <= Val(p[j].total_spent)}
sort_values(s) ==
    {p \in Rearrangements(s) :
        \A i, j \in DOMAIN p :
            i < j => Val(p[i].total_spent) >= Val(p[j].total_spent)}

\* The possible results of a call: the heap after it and the three
\* references returned; df_clean itself is returned first.
transform_data(h, df_clean) ==
    {[heap |-> h \o <<DailySummary(h[df_clean]), cs>>,
      clean |-> df_clean,
      daily |-> Len(h) + 1,
      category |-> Len(h) + 2,
      console |-> <<"daily_created", "category_created">>] :
        cs \in sort_values(CategoryGroups(h[df_clean]))}

(***************************************************************************)
(* load_data.  The writes happen in order; failAt is the write that raises  *)
(* (0: none), and partial tells whether the failing write left a truncated  *)
(* file behind.                                                             *)
(***************************************************************************)
Absent == [state |-> "absent", data |-> <<>>]
Truncated == [state |-> "partial", data |-> <<>>]
Complete(d) == [state |-> "complete", data |-> d]

\* to_csv(index=False): the index label is not written.
DropIndex(r) ==
    [transaction_id |-> r.transaction_id, transaction_date |-> r.transaction_date,
     amount |-> r.amount, merchant_category |-> r.merchant_category,
     status |-> r.status]

Output(h, df_clean, daily, category, i) ==
    CASE i = 1 -> [j \in DOMAIN h[df_clean] |-> DropIndex(h[df_clean][j])]
      [] i = 2 -> h[daily]
      [] i = 3 -> h[category]

WriteOutputs(h, df_clean, daily, category, old, failAt, partial) ==
    [n \in Range(FileNames) |->
        LET i == CHOOSE k \in 1..3 : FileNames[k] = n
        IN IF failAt = 0 \/ i < failAt
           THEN Complete(Output(h, df_clean, daily, category, i))
           ELSE IF i = failAt /\ partial THEN Truncated ELSE old[n]]

SavedMessages(failAt) ==
    LET all == <<"saved_clean", "saved_daily", "saved_category">>
    IN IF failAt = 0 THEN all \o <<"all_written">>
       ELSE SubSeq(all, 1, failAt - 1) \o <<"error_writing">>

load_data_swallow(h, df_clean, daily, category, old, failAt, partial) ==
    [files |-> WriteOutputs(h, df_clean, daily, category, old, failAt, partial),
     console |-> SavedMessages(failAt),
     success |-> TRUE]
load_data(h, df_clean, daily, category, old, failAt, partial) ==
    [files |-> WriteOutputs(h, df_clean, daily, category, old, failAt, partial),
     console |-> SavedMessages(failAt),
     success |-> failAt = 0]

(***************************************************************************)
(* run_pipeline.                                                            *)
(***************************************************************************)
Stages == {"PENDING", "EXTRACTED", "CLEANED", "AGGREGATED", "LOADED", "FAILED"}

Bump(c, f) == [c EXCEPT ![f] = @ + 1]

\* if raw_data is not None: ... else: print("Pipeline failed during extract phase")
after_extract_unchecked(raw) == "EXTRACTED"
after_extract(raw) == IF raw # None THEN "EXTRACTED" ELSE "FAILED"

InitWith(n) ==
    /\ source \in SourceFiles(n)
    /\ stage = "PENDING"
    /\ heap = <<>>
    /\ raw_data = None
    /\ clean_data = None
    /\ daily_summary = None
    /\ category_summary = None
    /\ null_counts = NULL
    /\ removed = NULL
    /\ files = [n2 \in Range(FileNames) |-> Absent]
    /\ console = <<"start">>
    /\ calls = [f \in {"extract_data", "validate_data", "transform_data", "load_data"} |-> 0]

Init == InitWith(MaxLen)

ExtractData ==
    /\ stage = "PENDING"
    /\ LET r == extract_data(heap, source)
           next == after_extract(r.ret)
       IN /\ heap' = r.heap
          /\ raw_data' = r.ret
          /\ stage' = next
          /\ console' = console \o r.console
                 \o (IF next = "FAILED" THEN <<"failed_extract">> ELSE <<>>)
    /\ calls' = Bump(calls, "extract_data")
    /\ UNCHANGED <<source, clean_data, daily_summary, category_summary,
                   null_counts, removed, files>>

ValidateData ==
    /\ stage = "EXTRACTED"
    /\ LET r == validate_data(heap, raw_data)
       IN /\ heap' = r.heap
          /\ null_counts' = r.null_counts
          /\ removed' = r.removed
          /\ console' = console \o r.console
          /\ clean_data' = IF r.raised THEN clean_data ELSE r.ret
          /\ stage' = IF r.raised THEN "FAILED" ELSE "CLEANED"
    /\ calls' = Bump(calls, "validate_data")
    /\ UNCHANGED <<source, raw_data, daily_summary, category_summary, files>>

TransformData ==
    /\ stage = "CLEANED"
    /\ \E r \in transform_data(heap, clean_data) :
          /\ heap' = r.heap
          /\ clean_data' = r.clean
          /\ daily_summary' = r.daily
          /\ category_summary' = r.category
          /\ console' = console \o r.console
    /\ stage' = "AGGREGATED"
    /\ calls' = Bump(calls, "transform_data")
    /\ UNCHANGED <<source, raw_data, null_counts, removed, files>>

LoadData ==
    /\ stage = "AGGREGATED"
    /\ \E failAt \in 0..3, partial \in BOOLEAN :
          LET r == load_data(heap, clean_data, daily_summary, category_summary,
                             files, failAt, partial)
          IN /\ files' = r.files
             /\ console' = console \o r.console
                    \o (IF r.success
                        THEN <<"SUCCESS", "DAILY_RESULTS", "CATEGORY_RESULTS">>
                        ELSE <<"failed_load">>)
             /\ stage' = IF r.success THEN "LOADED" ELSE "FAILED"
    /\ calls' = Bump(calls, "load_data")
    /\ UNCHANGED <<source, heap, raw_data, clean_data, daily_summary,
                   category_summary, null_counts, removed>>

Next == ExtractData \/ ValidateData \/ TransformData \/ LoadData

Spec == Init /\ [][Next]_vars

\* run_pipeline is straight-line synchronous code: a stage that can run, runs.
LiveInit == InitWith(MaxLiveLen)
FairSpec == LiveInit /\ [][Next]_vars /\ WF_vars(Next)

(***************************************************************************)
(* Properties.                                                              *)
(***************************************************************************)
Said(m) == m \in Range(console)
Abs(x) == IF x < 0 THEN -x ELSE x
Completed(r) == r.status = Some("completed")

\* The first position of category c in the cleaned record set.
FirstSeen(rows, c) ==
    CHOOSE i \in DOMAIN rows :
        /\ rows[i].merchant_category = Some(c)
        /\ \A j \in 1..(i - 1) : rows[j].merchant_category # Some(c)

\* C1: when validate_data returns, the cleaned set holds exactly the rows of
\* the source whose status is the literal "completed" (every cleaned row is
\* completed, every completed row is kept), and the number of cleaned rows
\* plus the removed count is the number of raw rows.
C1_StatusFilterExact ==
    clean_data # None =>
        LET clean == heap[clean_data]
        IN /\ \A j \in DOMAIN clean : Completed(clean[j])
           /\ \A i \in DOMAIN source.rows :
                 Completed(source.rows[i]) =>
                     \E j \in DOMAIN clean : clean[j].index = i - 1
           /\ \A j \in DOMAIN clean : Completed(source.rows[clean[j].index + 1])
           /\ removed # NULL
           /\ Len(clean) + Val(removed) = Len(source.rows)

\* C1 witness: a cleaned set was returned for a source holding a completed
\* row, a row of status "Completed" and a row of missing status.
C1_Witness ==
    /\ clean_data # None
    /\ Len(heap[clean_data]) >= 1
    /\ \E i \in DOMAIN source.rows : source.rows[i].status = Some("Completed")
    /\ \E i \in DOMAIN source.rows : source.rows[i].status = NULL

\* C2: whenever validate_data returns a cleaned set, every row of it has a
\* transaction_date that is a parsed calendar date (not a missing one).
C2_EveryDateParsed ==
    clean_data # None =>
        \A j \in DOMAIN heap[clean_data] :
            ~IsNull(heap[clean_data][j].transaction_date)

\* C3 as stated: the category summary is non-increasing in total_spent, and
\* categories of equal total_spent appear in first-seen order.
C3_TiesInFirstSeenOrder ==
    category_summary # None =>
        LET cs == heap[category_summary]
            clean == heap[clean_data]
        IN \A i, j \in DOMAIN cs :
              i < j =>
                 /\ Val(cs[i].total_spent) >= Val(cs[j].total_spent)
                 /\ (cs[i].total_spent = cs[j].total_spent =>
                        FirstSeen(clean, cs[i].merchant_category)
                            < FirstSeen(clean, cs[j].merchant_category))

\* C3 amended: the category summary is non-increasing in total_spent and has
\* exactly one row per distinct present merchant_category of the cleaned set
\* (nothing is promised about the order of categories of equal total_spent).
C3_NonIncreasing ==
    category_summary # None =>
        LET cs == heap[category_summary]
            clean == heap[clean_data]
        IN /\ \A i, j \in DOMAIN cs :
                 i < j => Val(cs[i].total_spent) >= Val(cs[j].total_spent)
           /\ {cs[i].merchant_category : i \in DOMAIN cs}
                 = GroupKeys(clean, "merchant_category")
           /\ Len(cs) = Cardinality(GroupKeys(clean, "merchant_category"))

\* C3 witness: a summary where two categories of equal total_spent appear
\* against their first-seen order, after a category of larger total_spent.
C3_Witness ==
    /\ category_summary # None
    /\ Len(heap[category_summary]) = 3
    /\ LET cs == heap[category_summary]
           clean == heap[clean_data]
       IN /\ Val(cs[1].total_spent) > Val(cs[2].total_spent)
          /\ cs[2].total_spent = cs[3].total_spent
          /\ FirstSeen(clean, cs[2].merchant_category)
                > FirstSeen(clean, cs[3].merchant_category)

\* C4: the daily summary has exactly one entry per distinct date of the
\* cleaned set, and for every entry total_amount is the sum of the group's
\* amounts and avg_amount is total_amount / transaction_count, both within
\* the rounding tolerance of one hundredth.
C4_DailySumAndAverage ==
    daily_summary # None =>
        LET ds == heap[daily_summary]
            clean == heap[clean_data]
        IN /\ {ds[i].transaction_date : i \in DOMAIN ds}
                 = GroupKeys(clean, "transaction_date")
           /\ Len(ds) = Cardinality(GroupKeys(clean, "transaction_date"))
           /\ \A i \in DOMAIN ds :
                 LET g == Group(clean, "transaction_date", ds[i].transaction_date)
                     total == SumSeq(Values(Column(g, "amount")))
                     n == ds[i].transaction_count
                 IN /\ Abs(10 * Val(ds[i].total_amount) - total) <= 5
                    /\ n > 0
                    /\ ~IsNull(ds[i].avg_amount)
                    /\ Abs(n * Val(ds[i].avg_amount) - Val(ds[i].total_amount)) <= n

\* C5: in both summaries transaction_count is the size of the group, the
\* number of cleaned rows whose grouping key is the entry's key.
C5_CountIsGroupSize ==
    daily_summary # None =>
        LET ds == heap[daily_summary]
            cs == heap[category_summary]
            clean == heap[clean_data]
        IN /\ \A i \in DOMAIN ds :
                 ds[i].transaction_count
                    = Len(Group(clean, "transaction_date", ds[i].transaction_date))
           /\ \A i \in DOMAIN cs :
                 cs[i].transaction_count
                    = Len(Group(clean, "merchant_category", cs[i].merchant_category))

\* C6: validate_data is a stable filter: the cleaned rows are rows of the
\* source (same cells, the date apart), in the source's relative order, and
\* so never more than the source holds.
C6_StableFilter ==
    clean_data # None =>
        LET clean == heap[clean_data]
        IN /\ \A i, j \in DOMAIN clean : i < j => clean[i].index < clean[j].index
           /\ \A j \in DOMAIN clean :
                 /\ clean[j].index + 1 \in DOMAIN source.rows
                 /\ LET r == source.rows[clean[j].index + 1]
                    IN /\ clean[j].transaction_id = r.transaction_id
                       /\ clean[j].amount = r.amount
                       /\ clean[j].merchant_category = r.merchant_category
                       /\ clean[j].status = r.status
                       /\ clean[j].transaction_date = to_datetime_cell(r.transaction_date)
           /\ Len(clean) <= Len(source.rows)

\* C6 witness: two rows survived around a row that was dropped.
C6_Witness ==
    /\ clean_data # None
    /\ Len(heap[clean_data]) = 2
    /\ heap[clean_data][1].index = 0
    /\ heap[clean_data][2].index = 2
    /\ heap[clean_data][1] # heap[clean_data][2]

\* A completed row of the source whose present date does not parse.
MalformedSurvivor ==
    \E i \in DOMAIN source.rows :
        /\ Completed(source.rows[i])
        /\ ~IsNull(source.rows[i].transaction_date)
        /\ ~ValidDate(Val(source.rows[i].transaction_date))

\* C7: with a completed row whose date cannot be parsed, validate_data
\* raises: the run goes from EXTRACTED to FAILED, no cleaned set is returned,
\* transform_data and load_data never run, no output file is written and
\* nothing runs after the failure (validate_data is entered once).
C7_MalformedDateFatal ==
    MalformedSurvivor =>
        /\ stage \in {"PENDING", "EXTRACTED", "FAILED"}
        /\ calls["validate_data"] <= 1
        /\ calls["transform_data"] = 0
        /\ calls["load_data"] = 0
        /\ clean_data = None
        /\ daily_summary = None
        /\ category_summary = None
        /\ \A n \in Range(FileNames) : files[n] = Absent
        /\ (calls["validate_data"] = 1 => stage = "FAILED" /\ Said("Traceback"))
        /\ (stage = "FAILED" => ~ENABLED Next)

\* C7 witness: validate_data has raised on a malformed date of a completed
\* row, in a source that also holds a well-formed completed row.
C7_Witness ==
    /\ MalformedSurvivor
    /\ stage = "FAILED"
    /\ calls["validate_data"] = 1
    /\ \E i \in DOMAIN source.rows :
          /\ Completed(source.rows[i])
          /\ ~IsNull(source.rows[i].transaction_date)
          /\ ValidDate(Val(source.rows[i].transaction_date))

\* A step of the run: the stage moves along PENDING, EXTRACTED, CLEANED,
\* AGGREGATED, LOADED or to FAILED, entering exactly the stage function of
\* the stage it leaves, each at most once; LOADED and FAILED are left never.
StageStep ==
    /\ <<stage, stage'>> \in
          {<<"PENDING", "EXTRACTED">>, <<"PENDING", "FAILED">>,
           <<"EXTRACTED", "CLEANED">>, <<"EXTRACTED", "FAILED">>,
           <<"CLEANED", "AGGREGATED">>,
           <<"AGGREGATED", "LOADED">>, <<"AGGREGATED", "FAILED">>}
    /\ LET f == CASE stage = "PENDING" -> "extract_data"
                  [] stage = "EXTRACTED" -> "validate_data"
                  [] stage = "CLEANED" -> "transform_data"
                  [] stage = "AGGREGATED" -> "load_data"
       IN calls' = Bump(calls, f) /\ calls'[f] = 1

ExtractFailed == calls["extract_data"] = 1 /\ raw_data = None

\* C8: the stages run only in the order PENDING, EXTRACTED, CLEANED,
\* AGGREGATED, LOADED, each at most once; the run ends in LOADED or FAILED;
\* a failed extraction leads to FAILED with validate_data, transform_data
\* and load_data never entered; nothing runs once FAILED.
C8_StageOrder ==
    /\ [][StageStep]_vars
    /\ [](ExtractFailed =>
             /\ stage = "FAILED"
             /\ Said("failed_extract")
             /\ calls["validate_data"] = 0
             /\ calls["transform_data"] = 0
             /\ calls["load_data"] = 0)
    /\ <>(stage \in {"LOADED", "FAILED"})

\* C8 witness: the run ended in FAILED after the source could not be read.
C8_Witness ==
    /\ ExtractFailed
    /\ stage = "FAILED"
    /\ source.kind = "unreadable"

LoadFailed == Said("error_writing")

\* C9 as stated: when a write fails, the failure is reported, the run ends
\* in FAILED with no success report and no summaries displayed, and none of
\* the three outputs remains persisted.
C9_NothingPersisted ==
    LoadFailed =>
        /\ stage = "FAILED"
        /\ Said("failed_load")
        /\ ~Said("SUCCESS") /\ ~Said("DAILY_RESULTS") /\ ~Said("CATEGORY_RESULTS")
        /\ \A n \in Range(FileNames) : files[n] = Absent

SavedTag == <<"saved_clean", "saved_daily", "saved_category">>

\* C9 amended: when a write fails, the failure is reported, the run ends in
\* FAILED with no success report and no summaries displayed; the outputs
\* written before the failing write remain persisted in full (nothing is
\* rolled back), and no output after the failing write is written.
C9_EarlierWritesRemain ==
    LoadFailed =>
        /\ stage = "FAILED"
        /\ Said("failed_load")
        /\ ~Said("SUCCESS") /\ ~Said("DAILY_RESULTS") /\ ~Said("CATEGORY_RESULTS")
        /\ ~Said("all_written") /\ ~Said("saved_category")
        /\ \A i \in 1..3 :
              /\ Said(SavedTag[i]) =>
                    files[FileNames[i]]
                        = Complete(Output(heap, clean_data, daily_summary,
                                          category_summary, i))
              /\ (~Said(SavedTag[i]) /\ i > 1 /\ ~Said(SavedTag[i - 1])) =>
                    files[FileNames[i]] = Absent
              /\ ~Said(SavedTag[i]) => files[FileNames[i]].state # "complete"

\* C9 witness: the third write failed after two non-empty outputs were saved.
C9_Witness ==
    /\ LoadFailed
    /\ files["transactions_clean.csv"].state = "complete"
    /\ files["daily_summary.csv"].state = "complete"
    /\ files["daily_summary.csv"].data # <<>>
    /\ files["category_summary.csv"].state # "complete"

ValidateReturns == stage = "EXTRACTED" /\ stage' = "CLEANED"
TransformReturns == stage = "CLEANED" /\ stage' = "AGGREGATED"
Fresh(ref) == ref \notin DOMAIN heap /\ ref \in DOMAIN heap'
HeapKept == \A o \in DOMAIN heap : heap'[o] = heap[o]

AllOutputsFreshStep ==
    /\ ValidateReturns =>
          /\ HeapKept
          /\ heap'[raw_data'] = read_csv(source.rows)
          /\ Fresh(clean_data')
    /\ TransformReturns =>
          /\ HeapKept
          /\ Fresh(clean_data')
          /\ Fresh(daily_summary')
          /\ Fresh(category_summary')

\* C10 as stated: validate_data leaves the raw set as read (dates still
\* text) and returns a new object; transform_data leaves the cleaned set
\* unchanged and every value it returns is a new object.
C10_AllOutputsFresh == [][AllOutputsFreshStep]_vars

InputsUnchangedStep ==
    /\ ValidateReturns =>
          /\ HeapKept
          /\ raw_data' = raw_data
          /\ heap'[raw_data'] = read_csv(source.rows)
          /\ Fresh(clean_data')
    /\ TransformReturns =>
          /\ HeapKept
          /\ clean_data' = clean_data
          /\ Fresh(daily_summary')
          /\ Fresh(category_summary')
          /\ daily_summary' # category_summary'

\* C10 amended: validate_data leaves the raw set as read (dates still text)
\* and returns a new object; transform_data leaves the cleaned set unchanged
\* and returns two new summary objects, while the first value it returns is
\* the cleaned set it was handed, the same object.
C10_InputsUnchanged == [][InputsUnchangedStep]_vars

\* C10 witness: both stages have returned on a raw set of which one row was
\* kept (its date re-typed) and one dropped.
C10_Witness ==
    /\ stage = "AGGREGATED"
    /\ Len(heap[raw_data]) = 2
    /\ Len(heap[clean_data]) = 1
    /\ heap[daily_summary] # <<>>

====
